---- MODULE Spec2Model ----
(***************************************************************************)
(* BenfordsLawAnalyzer (src/src/analysis/benfords_law.py) as a state       *)
(* machine: the analyzer's five attributes, and one action per public or   *)
(* test method.                                                            *)
(*                                                                         *)
(* Numbers.  TLC has 32-bit integers and no reals, so                      *)
(*   - a cell of a column is a decimal number m * 10^e, NaN or infinity;   *)
(*   - a pandas Series is a sequence of runs [cell, n]: n equal            *)
(*     consecutive cells (every Series operation the analyzer uses is      *)
(*     elementwise, a count or a length);                                  *)
(*   - an observed proportion is the exact fraction <<count, total>>;      *)
(*   - log10(1 + 1/d) is kept to five decimals (units of 10^-5);           *)
(*   - MAD and the KS statistic and critical value are in units of 10^-6,  *)
(*     rounded down; the chi-square statistic in units of 10^-5; a         *)
(*     p-value and alpha in units of 10^-3; a confidence level in percent. *)
(***************************************************************************)
EXTENDS Integers, Sequences, FiniteSets, TLC

Digits == 1..9

(* Python's None and a present value, for an attribute that may be None. *)
None == <<>>
Some(x) == <<x>>
IsNone(o) == Len(o) = 0
Get(o) == o[1]

RECURSIVE SumSeq(_)
SumSeq(s) == IF Len(s) = 0 THEN 0 ELSE Head(s) + SumSeq(Tail(s))

RECURSIVE MaxSeq(_)
MaxSeq(s) == IF Len(s) = 1 THEN s[1]
             ELSE LET r == MaxSeq(Tail(s)) IN IF s[1] >= r THEN s[1] ELSE r

Abs(x) == IF x < 0 THEN -x ELSE x

(* floor(sqrt(x)), by bisection on lo <= sqrt(x) < hi *)
RECURSIVE ISqrtIn(_, _, _)
ISqrtIn(x, lo, hi) ==
    IF hi - lo <= 1 THEN lo
    ELSE LET mid == (lo + hi) \div 2
         IN IF mid * mid <= x THEN ISqrtIn(x, mid, hi) ELSE ISqrtIn(x, lo, mid)

ISqrt(x) == ISqrtIn(x, 0, 46341)

(***************************************************************************)
(* Cells and Series                                                        *)
(***************************************************************************)
Num(m, e) == [k |-> "num", m |-> m, e |-> e]
NaN == [k |-> "nan", m |-> 0, e |-> 0]
Inf == [k |-> "inf", m |-> 1, e |-> 0]
NegInf == [k |-> "inf", m |-> -1, e |-> 0]

Run(c, n) == [cell |-> c, n |-> n]

(* len(series) *)
SeriesLen(s) == SumSeq([i \in 1..Len(s) |-> s[i].n])

(* the series as the plain list of its elements *)
RECURSIVE Elements(_)
Elements(s) ==
    IF Len(s) = 0 THEN <<>>
    ELSE [i \in 1..s[1].n |-> s[1].cell] \o Elements(Tail(s))

RECURSIVE NumDigits(_)
NumDigits(m) == IF m < 10 THEN 1 ELSE 1 + NumDigits(m \div 10)

RECURSIVE LeadDigit(_)
LeadDigit(m) == IF m < 10 THEN m ELSE LeadDigit(m \div 10)

DigitChars == <<"1", "2", "3", "4", "5", "6", "7", "8", "9">>

(* data.abs() on one cell: NaN stays NaN, -inf becomes inf *)
AbsCell(c) == [c EXCEPT !.m = Abs(c.m)]

(* (abs_data > 0) & (~abs_data.isna()) on one cell *)
ValidMask(c) ==
    /\ (c.k = "inf" \/ (c.k = "num" /\ c.m > 0))
    /\ ~(c.k = "nan")

(* astype(str).str[0] on one positive cell: the first character of the      *)
(* number's shortest decimal form.  With p the position of the leading      *)
(* digit (10^(p-1) <= value < 10^p), the form is d... for p >= 1, 0.0..d    *)
(* for -3 <= p <= 0 and d.dde-XX below 10^-4; infinity prints as inf.       *)
FirstChar(c) ==
    IF c.k = "inf" THEN "i"
    ELSE LET p == NumDigits(c.m) + c.e
         IN IF p >= 1 \/ p < -3 THEN DigitChars[LeadDigit(c.m)] ELSE "0"

(* int(ch): the digit, or no value (ValueError: invalid literal for int) *)
ToInt(ch) ==
    IF ch = "0" THEN Some(0)
    ELSE IF \E d \in Digits : DigitChars[d] = ch
         THEN Some(CHOOSE d \in Digits : DigitChars[d] = ch)
         ELSE None

(***************************************************************************)
(* _calculate_theoretical_distribution, in units of 10^-5                  *)
(***************************************************************************)
Scale == 10 ^ 5

Log10Table == <<30103, 17609, 12494, 9691, 7918, 6695, 5799, 5115, 4576>>

_calculate_theoretical_distribution == [digit \in Digits |-> Log10Table[digit]]

(***************************************************************************)
(* _calculate_observed_distribution: the argument is a Series of ints      *)
(***************************************************************************)
Zero == <<0, 1>>
Frac(n, d) == <<n, d>>

(* first_digits.value_counts(): digit -> count, for the digits that occur *)
value_counts(first_digits) ==
    LET vals == {first_digits[i].cell : i \in 1..Len(first_digits)}
    IN [v \in vals |->
          SumSeq([i \in 1..Len(first_digits) |->
                    IF first_digits[i].cell = v THEN first_digits[i].n ELSE 0])]

(* variant: each count divided by the number of distinct digits *)
_calculate_observed_distribution_by_distinct(first_digits) ==
    IF SeriesLen(first_digits) = 0
    THEN [d \in Digits |-> Zero]
    ELSE LET digit_counts == value_counts(first_digits)
             total_count  == Cardinality(DOMAIN digit_counts)
         IN [d \in Digits |->
               IF d \in DOMAIN digit_counts /\ 1 <= d /\ d <= 9
               THEN Frac(digit_counts[d], total_count)
               ELSE Zero]

_calculate_observed_distribution(first_digits) ==
    IF SeriesLen(first_digits) = 0
    THEN [d \in Digits |-> Zero]
    ELSE LET digit_counts == value_counts(first_digits)
             total_count  == SeriesLen(first_digits)
         IN [d \in Digits |->
               IF d \in DOMAIN digit_counts /\ 1 <= d /\ d <= 9
               THEN Frac(digit_counts[d], total_count)
               ELSE Zero]

(***************************************************************************)
(* _extract_first_digits: [ok, value], ok false when astype(int) raises    *)
(***************************************************************************)
(* variant: between(0, 9) *)
IsDigit09(d) == 0 <= d /\ d <= 9

IsDigit19(d) == 1 <= d /\ d <= 9
HasInt(ch) == ~IsNone(ToInt(ch))

_extract_first_digits(data) ==
    LET abs_data   == [i \in 1..Len(data) |-> Run(AbsCell(data[i].cell), data[i].n)]
        valid_data == SelectSeq(abs_data, LAMBDA r : ValidMask(r.cell))
    IN IF SeriesLen(valid_data) = 0
       THEN [ok |-> TRUE, value |-> <<>>, bad |-> ""]
       ELSE LET chars == [i \in 1..Len(valid_data) |->
                            Run(FirstChar(valid_data[i].cell), valid_data[i].n)]
                first == CHOOSE i \in 1..Len(chars) :
                            /\ ~HasInt(chars[i].cell)
                            /\ \A j \in 1..(i - 1) : HasInt(chars[j].cell)
                ints  == [i \in 1..Len(chars) |->
                            Run(Get(ToInt(chars[i].cell)), chars[i].n)]
            IN IF \A i \in 1..Len(chars) : HasInt(chars[i].cell)
               THEN [ok |-> TRUE,
                     value |-> SelectSeq(ints, LAMBDA r : IsDigit19(r.cell)),
                     bad |-> ""]
               ELSE [ok |-> FALSE, value |-> <<>>, bad |-> chars[first].cell]


(***************************************************************************)
(* The analyzer object: what a method reads and writes through self        *)
(***************************************************************************)
NewAnalyzer ==
    [theoretical_distribution |-> _calculate_theoretical_distribution,
     observed_distribution    |-> None,
     field_name               |-> None,
     raw_data                 |-> None,
     valid_data               |-> None]

(* raise ValueError(...): the message is kept as its kind and its parts *)
Raise(e) == [ok |-> FALSE, error |-> e]
Return(v) == [ok |-> TRUE, value |-> v]

NotAnalyzedError == [error |-> "Must run analyze() first"]

(* observed_distribution.get(digit, 0) *)
ObservedGet(self, digit) ==
    LET dist == Get(self.observed_distribution)
    IN IF digit \in DOMAIN dist THEN dist[digit] ELSE Zero

(***************************************************************************)
(* scipy.stats.chisquare                                                   *)
(***************************************************************************)
(* <<q, r>> with a * b = q * c + r and 0 <= r < c, in 32-bit steps *)
RECURSIVE MulDivMod(_, _, _)
MulDivMod(a, b, c) ==
    IF b = 0 THEN <<0, 0>>
    ELSE LET h == MulDivMod(a, b \div 2, c)
             q2 == 2 * h[1] + ((2 * h[2]) \div c)
             r2 == (2 * h[2]) % c
         IN IF b % 2 = 0 THEN <<q2, r2>>
            ELSE <<q2 + ((r2 + (a % c)) \div c) + (a \div c), (r2 + (a % c)) % c>>

MulDiv(a, b, c) == MulDivMod(a, b, c)[1]

(* sum of (f_obs - f_exp)^2 / f_exp; f_obs in whole counts, f_exp and the  *)
(* result in units of 10^-5                                                *)
ChiSquareStatistic(observed_counts, expected_counts) ==
    SumSeq([i \in Digits |->
              LET diff == Abs(observed_counts[i] * Scale - expected_counts[i])
              IN MulDiv(diff, diff, expected_counts[i])])

(* the chi-square survival function with 8 degrees of freedom, on the grid *)
(* of a printed table: <<p in 10^-3, the statistic x with sf(x) = p in     *)
(* 10^-5>>.  The p-value is rounded down to the grid, which keeps          *)
(* p_value < alpha exact for every alpha on the grid.                      *)
Chi2Table ==
    << <<990, 164649>>, <<950, 273263>>, <<900, 348953>>, <<750, 507064>>,
       <<500, 734412>>, <<250, 1021885>>, <<100, 1336156>>, <<50, 1550731>>,
       <<25, 1753454>>, <<10, 2009023>>, <<5, 2195495>>, <<1, 2612448>> >>

Chi2SurvivalFunction(chi2_stat) ==
    LET levels == {Chi2Table[i][1] : i \in {j \in 1..Len(Chi2Table) :
                                              chi2_stat <= Chi2Table[j][2]}}
    IN IF levels = {} THEN 0 ELSE CHOOSE p \in levels : \A q \in levels : q <= p

(***************************************************************************)
(* _chi_square_test                                                        *)
(***************************************************************************)
DegreesOfFreedom == 8

ChiInterpretation(p_value, alpha) ==
    IF p_value < alpha
    THEN [text |-> "Significantly different from Benford's Law (p < alpha)",
          alpha |-> alpha]
    ELSE [text |-> "Not significantly different from Benford's Law (p >= alpha)",
          alpha |-> alpha]

(* variant: significant at p_value <= alpha *)
ChiReportAtMost(chi2_stat, p_value, alpha) ==
    [statistic          |-> chi2_stat,
     p_value            |-> p_value,
     degrees_of_freedom |-> DegreesOfFreedom,
     significant        |-> p_value <= alpha,
     interpretation     |-> ChiInterpretation(p_value, alpha)]

(* the returned dict *)
ChiReport(chi2_stat, p_value, alpha) ==
    [statistic          |-> chi2_stat,
     p_value            |-> p_value,
     degrees_of_freedom |-> DegreesOfFreedom,
     significant        |-> p_value < alpha,
     interpretation     |-> ChiInterpretation(p_value, alpha)]

_chi_square_test(self, alpha) ==
    IF IsNone(self.observed_distribution)
    THEN Raise(NotAnalyzedError)
    ELSE LET total_observations == SeriesLen(Get(self.valid_data))
             observed_counts == [digit \in Digits |->
                 (ObservedGet(self, digit)[1] * total_observations)
                     \div ObservedGet(self, digit)[2]]
             expected_counts == [digit \in Digits |->
                 self.theoretical_distribution[digit] * total_observations]
             chi2_stat == ChiSquareStatistic(observed_counts, expected_counts)
             p_value   == Chi2SurvivalFunction(chi2_stat)
         IN Return(ChiReport(chi2_stat, p_value, alpha))

(***************************************************************************)
(* _kolmogorov_smirnov_test                                                *)
(***************************************************************************)
(* confidence level in percent -> multiplier in hundredths *)
critical_values_map == [c \in {90, 95, 99} |->
                          IF c = 90 THEN 122 ELSE IF c = 95 THEN 136 ELSE 163]

InvalidConfidenceError ==
    [error |-> "Invalid confidence level. Choose from", choices |-> <<90, 95, 99>>]

(* the running sums after each digit: observed as counts over a common     *)
(* total, theoretical in units of 10^-5                                    *)
RECURSIVE CumulativeSum(_, _)
CumulativeSum(f, digit) ==
    IF digit = 0 THEN 0 ELSE CumulativeSum(f, digit - 1) + f[digit]

(* the common denominator of the observed proportions *)
ObservedTotal(self) ==
    MaxSeq([digit \in Digits |-> ObservedGet(self, digit)[2]])

(* |obs - theo| for the two running sums, in units of 10^-6, rounded down *)
KsDifferences(self) ==
    LET total == ObservedTotal(self)
        obs   == [digit \in Digits |->
                    ObservedGet(self, digit)[1]
                      * (total \div ObservedGet(self, digit)[2])]
    IN [digit \in Digits |->
          (10 * Abs(CumulativeSum(obs, digit) * Scale
                     - CumulativeSum(self.theoretical_distribution, digit) * total))
             \div total]

(* multiplier / sqrt(n), in units of 10^-6 *)
CriticalValue(multiplier, n) == (multiplier * (10 ^ 7)) \div ISqrt(n * (10 ^ 6))

KsInterpretation(significant, confidence_level) ==
    IF significant
    THEN [text |-> "Significantly different from Benford's Law at confidence",
          confidence |-> confidence_level]
    ELSE [text |-> "Not significantly different from Benford's Law at confidence",
          confidence |-> confidence_level]

(* the returned dict *)
KsReport(ks_statistic, critical_value, confidence_level) ==
    [statistic        |-> ks_statistic,
     critical_value   |-> critical_value,
     confidence_level |-> confidence_level,
     significant      |-> ks_statistic > critical_value,
     interpretation   |-> KsInterpretation(ks_statistic > critical_value,
                                           confidence_level)]

(* variant: n is the length of the whole column *)
KsResultTotalCount(self, confidence_level) ==
    LET ks_statistic == MaxSeq(KsDifferences(self))
        n == SeriesLen(Get(self.raw_data))
        critical_value_multiplier == critical_values_map[confidence_level]
        critical_value == CriticalValue(critical_value_multiplier, n)
    IN KsReport(ks_statistic, critical_value, confidence_level)

(* the statistic, the critical value and the returned dict *)
KsResult(self, confidence_level) ==
    LET ks_statistic == MaxSeq(KsDifferences(self))
        n == SeriesLen(Get(self.valid_data))
        critical_value_multiplier == critical_values_map[confidence_level]
        critical_value == CriticalValue(critical_value_multiplier, n)
    IN KsReport(ks_statistic, critical_value, confidence_level)

(* variant: the confidence level is looked up only when the critical value *)
(* is needed, after the running sums and the statistic                     *)
_kolmogorov_smirnov_test_late_check(self, confidence_level) ==
    IF IsNone(self.observed_distribution)
    THEN [ok |-> FALSE, error |-> NotAnalyzedError, steps |-> <<>>]
    ELSE IF confidence_level \notin DOMAIN critical_values_map
    THEN [ok |-> FALSE, error |-> InvalidConfidenceError,
          steps |-> <<"ks_cumulative", "ks_statistic", "ks_check">>]
    ELSE [ok |-> TRUE, value |-> KsResult(self, confidence_level),
          steps |-> <<"ks_cumulative", "ks_statistic", "ks_check", "ks_critical_value">>]

(* steps: the stages of the test that ran, in order *)
_kolmogorov_smirnov_test(self, confidence_level) ==
    IF IsNone(self.observed_distribution)
    THEN [ok |-> FALSE, error |-> NotAnalyzedError, steps |-> <<>>]
    ELSE IF confidence_level \notin DOMAIN critical_values_map
    THEN [ok |-> FALSE, error |-> InvalidConfidenceError, steps |-> <<"ks_check">>]
    ELSE [ok |-> TRUE, value |-> KsResult(self, confidence_level),
          steps |-> <<"ks_check", "ks_cumulative", "ks_statistic", "ks_critical_value">>]

(***************************************************************************)
(* _mean_absolute_deviation                                                *)
(***************************************************************************)
LowDispersion == "Low Dispersion: Indicates a very close fit to Benford's Law."
AcceptableDispersion == "Acceptable Dispersion: Indicates a good fit to Benford's Law, typical for clean data."
MarginalDispersion == "Marginal Dispersion: Suggests some deviation from Benford's Law, which may be acceptable."
HighDispersion == "High Dispersion: Indicates significant deviation from Benford's Law, suggesting potential data anomalies."

(* the thresholds 0.006, 0.012, 0.015 in units of 10^-6 *)
MadLow == 6000
MadAcceptable == 12000
MadMarginal == 15000

(* variant: each band closed at its upper threshold *)
ConformityClosed(mad) ==
    IF mad <= MadLow THEN LowDispersion
    ELSE IF mad <= MadAcceptable THEN AcceptableDispersion
    ELSE IF mad <= MadMarginal THEN MarginalDispersion
    ELSE HighDispersion

Conformity(mad) ==
    IF mad < MadLow THEN LowDispersion
    ELSE IF mad < MadAcceptable THEN AcceptableDispersion
    ELSE IF mad < MadMarginal THEN MarginalDispersion
    ELSE HighDispersion

(* np.mean of the nine |observed - expected|, in units of 10^-6 *)
MeanDeviation(self) ==
    LET total == ObservedTotal(self)
        deviations == [digit \in Digits |->
            Abs(ObservedGet(self, digit)[1] * (total \div ObservedGet(self, digit)[2]) * Scale
                 - self.theoretical_distribution[digit] * total)]
    IN (10 * SumSeq(deviations)) \div (9 * total)

(* the returned dict, for the mean mad *)
MadResult(mad) ==
    [mad |-> mad,
     conformity_level |-> Conformity(mad),
     interpretation |-> [mad |-> mad, indicates |-> Conformity(mad)]]

(* variant: the guard reads field_name; without an observed distribution  *)
(* the body then fails on None                                             *)
_mean_absolute_deviation_field_guard(self) ==
    IF IsNone(self.field_name)
    THEN Raise(NotAnalyzedError)
    ELSE IF IsNone(self.observed_distribution)
    THEN Raise([error |-> "'NoneType' object has no attribute 'get'"])
    ELSE Return(MadResult(MeanDeviation(self)))

_mean_absolute_deviation(self) ==
    IF IsNone(self.observed_distribution)
    THEN Raise(NotAnalyzedError)
    ELSE Return(MadResult(MeanDeviation(self)))

(***************************************************************************)
(* _generate_summary                                                       *)
(***************************************************************************)
SummaryMadThreshold == 15000

Bool01(b) == IF b THEN 1 ELSE 0

(* variant: more than two of the three must agree *)
_generate_summary_strict(chi2_result, ks_result, mad_result) ==
    LET tests_agree_conformity ==
            Bool01(~chi2_result.significant)
              + Bool01(~ks_result.significant)
              + Bool01(mad_result.mad < SummaryMadThreshold)
    IN IF tests_agree_conformity > 2
       THEN [verdict  |-> "The data likely follows Benford's Law.",
             detected |-> mad_result.conformity_level]
       ELSE [verdict  |-> "The data likely does not follow Benford's Law. Multiple tests indicate deviation.",
             detected |-> ""]

_generate_summary(chi2_result, ks_result, mad_result) ==
    LET tests_agree_conformity ==
            Bool01(~chi2_result.significant)
              + Bool01(~ks_result.significant)
              + Bool01(mad_result.mad < SummaryMadThreshold)
    IN IF tests_agree_conformity >= 2
       THEN [verdict  |-> "The data likely follows Benford's Law.",
             detected |-> mad_result.conformity_level]
       ELSE [verdict  |-> "The data likely does not follow Benford's Law. Multiple tests indicate deviation.",
             detected |-> ""]


(***************************************************************************)
(* analyze: [self, out, steps] -- the analyzer afterwards, what the call   *)
(* returned or raised, and the stages that ran                             *)
(***************************************************************************)
(* variant: the message leaves the available columns out *)
FieldNotFoundErrorBare(field, df) ==
    [error |-> "Field not found in DataFrame columns", field |-> field,
     columns |-> <<>>]

FieldNotFoundError(field, df) ==
    [error |-> "Field not found in DataFrame columns", field |-> field,
     columns |-> df.columns]

NoValidDataError(field) ==
    [error |-> "No valid data found in field for Benford's Law analysis",
     field |-> field]

InvalidLiteralError(ch) ==
    [error |-> "invalid literal for int() with base 10", literal |-> ch]

Columns(df) == {df.columns[i] : i \in 1..Len(df.columns)}

(* variant: self.raw_data = df[field].dropna() *)
StoreFieldDropNa(self, df, field) ==
    [self EXCEPT !.field_name = Some(field),
                 !.raw_data = Some(SelectSeq(df.data[field],
                                             LAMBDA r : r.cell.k # "nan"))]

(* variant: a column already held is kept *)
StoreFieldKeepFirst(self, df, field) ==
    [self EXCEPT !.field_name = Some(field),
                 !.raw_data = IF IsNone(self.raw_data) THEN Some(df.data[field])
                              ELSE self.raw_data]

(* variant: storing a new column drops the sample and distribution of the  *)
(* column before it                                                        *)
StoreFieldClearing(self, df, field) ==
    [self EXCEPT !.field_name = Some(field), !.raw_data = Some(df.data[field]),
                 !.valid_data = None, !.observed_distribution = None]

(* self.field_name = field; self.raw_data = df[field].copy() *)
StoreField(self, df, field) ==
    [self EXCEPT !.field_name = Some(field), !.raw_data = Some(df.data[field])]

(* variant: the new distribution is assigned to the wrong attribute *)
StoreSampleAsTheoretical(self, first_digits) ==
    [self EXCEPT !.valid_data = Some(first_digits),
                 !.theoretical_distribution =
                     [d \in Digits |->
                        (_calculate_observed_distribution(first_digits)[d][1] * Scale)
                           \div _calculate_observed_distribution(first_digits)[d][2]]]

(* variant: a sample already held is kept *)
StoreSampleKeepFirst(self, first_digits) ==
    [self EXCEPT !.valid_data =
                     IF IsNone(self.valid_data) THEN Some(first_digits)
                     ELSE self.valid_data,
                 !.observed_distribution =
                     Some(_calculate_observed_distribution(first_digits))]

(* variant: the sample is appended to the one already held *)
StoreSampleAppending(self, first_digits) ==
    [self EXCEPT !.valid_data =
                     IF IsNone(self.valid_data) THEN Some(first_digits)
                     ELSE Some(Get(self.valid_data) \o first_digits),
                 !.observed_distribution =
                     Some(_calculate_observed_distribution(first_digits))]

(* self.valid_data = first_digits; self.observed_distribution = ... *)
StoreSample(self, first_digits) ==
    [self EXCEPT !.valid_data = Some(first_digits),
                 !.observed_distribution =
                     Some(_calculate_observed_distribution(first_digits))]

(* analyze from line 300 on, for a field that is a column of df *)
AnalyzeColumn(self, df, field, alpha, ks_confidence) ==
    LET self1 == StoreField(self, df, field)
        extracted == _extract_first_digits(Get(self1.raw_data))
        first_digits == extracted.value
        self2 == StoreSample(self1, first_digits)
        chi_square_result == _chi_square_test(self2, alpha)
        ks_test_result == _kolmogorov_smirnov_test(self2, ks_confidence)
        mad_result == _mean_absolute_deviation(self2)
        results ==
            [field_name               |-> field,
             total_values             |-> SeriesLen(Get(self2.raw_data)),
             valid_values             |-> SeriesLen(first_digits),
             theoretical_distribution |-> self2.theoretical_distribution,
             observed_distribution    |-> Get(self2.observed_distribution),
             chi_square_test          |-> chi_square_result.value,
             ks_test                  |-> ks_test_result.value,
             mean_absolute_deviation  |-> mad_result.value,
             summary |-> _generate_summary(chi_square_result.value,
                                           ks_test_result.value,
                                           mad_result.value)]
    IN IF ~extracted.ok
       THEN [self |-> self1, out |-> Raise(InvalidLiteralError(extracted.bad)),
             steps |-> <<"check_field", "store_raw", "extract">>]
       ELSE IF SeriesLen(first_digits) = 0
       THEN [self |-> self1, out |-> Raise(NoValidDataError(field)),
             steps |-> <<"check_field", "store_raw", "extract", "check_empty">>]
       ELSE IF ~chi_square_result.ok
       THEN [self |-> self2, out |-> Raise(chi_square_result.error),
             steps |-> <<"check_field", "store_raw", "extract", "check_empty",
                         "store_valid", "store_observed">>]
       ELSE IF ~ks_test_result.ok
       THEN [self |-> self2, out |-> Raise(ks_test_result.error),
             steps |-> <<"check_field", "store_raw", "extract", "check_empty",
                         "store_valid", "store_observed", "chi_square">>
                         \o ks_test_result.steps]
       ELSE IF ~mad_result.ok
       THEN [self |-> self2, out |-> Raise(mad_result.error),
             steps |-> <<"check_field", "store_raw", "extract", "check_empty",
                         "store_valid", "store_observed", "chi_square">>
                         \o ks_test_result.steps]
       ELSE [self |-> self2, out |-> Return(results),
             steps |-> <<"check_field", "store_raw", "extract", "check_empty",
                         "store_valid", "store_observed", "chi_square">>
                         \o ks_test_result.steps \o <<"mad", "summary">>]

(* variant: self.field_name is assigned before the column check *)
analyze_naming_first(self, df, field, alpha, ks_confidence) ==
    IF field \notin Columns(df)
    THEN [self |-> [self EXCEPT !.field_name = Some(field)],
          out |-> Raise(FieldNotFoundError(field, df)),
          steps |-> <<"check_field">>]
    ELSE AnalyzeColumn(self, df, field, alpha, ks_confidence)

(* variant: ks_confidence is validated on entry, before the column check *)
analyze_confidence_first(self, df, field, alpha, ks_confidence) ==
    IF ks_confidence \notin DOMAIN critical_values_map
    THEN [self |-> self, out |-> Raise(InvalidConfidenceError),
          steps |-> <<"ks_check">>]
    ELSE IF field \notin Columns(df)
    THEN [self |-> self, out |-> Raise(FieldNotFoundError(field, df)),
          steps |-> <<"check_field">>]
    ELSE AnalyzeColumn(self, df, field, alpha, ks_confidence)

analyze(self, df, field, alpha, ks_confidence) ==
    IF field \notin Columns(df)
    THEN [self |-> self, out |-> Raise(FieldNotFoundError(field, df)),
          steps |-> <<"check_field">>]
    ELSE AnalyzeColumn(self, df, field, alpha, ks_confidence)

(***************************************************************************)
(* batch_analyze: results is a Python dict, kept as its keys in insertion  *)
(* order and their values; calls lists the analyze calls made, in order    *)
(***************************************************************************)
EmptyDict == [keys |-> <<>>, val |-> <<>>]

InKeys(d, key) == \E i \in 1..Len(d.keys) : d.keys[i] = key

(* d[key] = value: a new key goes last, a known key keeps its place *)
DictSet(d, key, value) ==
    IF InKeys(d, key)
    THEN [d EXCEPT !.val = [i \in 1..Len(d.keys) |->
                              IF d.keys[i] = key THEN value ELSE d.val[i]]]
    ELSE [keys |-> Append(d.keys, key), val |-> Append(d.val, value)]

DictGet(d, key) == d.val[CHOOSE i \in 1..Len(d.keys) : d.keys[i] = key]

(* variant: the loop ends at the first field whose analysis fails *)
RECURSIVE BatchLoopBreak(_, _, _, _, _, _, _)
BatchLoopBreak(self, df, fields, alpha, ks_confidence, results, calls) ==
    IF Len(fields) = 0
    THEN [self |-> self, out |-> Return(results), calls |-> calls]
    ELSE LET field == Head(fields)
             r == analyze(self, df, field, alpha, ks_confidence)
             call == [field |-> field, ok |-> r.out.ok, steps |-> r.steps]
         IN IF r.out.ok
            THEN BatchLoopBreak(r.self, df, Tail(fields), alpha, ks_confidence,
                                DictSet(results, field, r.out.value),
                                Append(calls, call))
            ELSE [self |-> r.self,
                  out |-> Return(DictSet(results, field, [error |-> r.out.error])),
                  calls |-> Append(calls, call)]

(* variant: no except clause, the first error leaves batch_analyze *)
RECURSIVE BatchLoopRaising(_, _, _, _, _, _, _)
BatchLoopRaising(self, df, fields, alpha, ks_confidence, results, calls) ==
    IF Len(fields) = 0
    THEN [self |-> self, out |-> Return(results), calls |-> calls]
    ELSE LET field == Head(fields)
             r == analyze(self, df, field, alpha, ks_confidence)
             call == [field |-> field, ok |-> r.out.ok, steps |-> r.steps]
         IN IF r.out.ok
            THEN BatchLoopRaising(r.self, df, Tail(fields), alpha, ks_confidence,
                                  DictSet(results, field, r.out.value),
                                  Append(calls, call))
            ELSE [self |-> r.self, out |-> Raise(r.out.error),
                  calls |-> Append(calls, call)]

RECURSIVE BatchLoop(_, _, _, _, _, _, _)
BatchLoop(self, df, fields, alpha, ks_confidence, results, calls) ==
    IF Len(fields) = 0
    THEN [self |-> self, out |-> Return(results), calls |-> calls]
    ELSE LET field == Head(fields)
             r == analyze(self, df, field, alpha, ks_confidence)
             entry == IF r.out.ok THEN r.out.value
                      ELSE [error |-> r.out.error]
         IN BatchLoop(r.self, df, Tail(fields), alpha, ks_confidence,
                      DictSet(results, field, entry),
                      Append(calls, [field |-> field, ok |-> r.out.ok,
                                     steps |-> r.steps]))

batch_analyze(self, df, fields, alpha, ks_confidence) ==
    BatchLoop(self, df, fields, alpha, ks_confidence, EmptyDict, <<>>)


(***************************************************************************)
(* The callers' inputs                                                     *)
(***************************************************************************)
(* a column with counts[d] cells of leading digit d, as mantissa * 10^e *)
DigitColumn(counts, mantissa, e) ==
    SelectSeq([d \in Digits |-> Run(Num(mantissa[d], e), counts[d])],
              LAMBDA r : r.n > 0)

CloseColumn ==
    DigitColumn(<<30, 18, 12, 10, 8, 7, 6, 5, 4>>,
                <<104, 23, -371, 4, 55, 6120, -7, 88, 9>>, 3)
      \o <<Run(NaN, 3), Run(Num(0, 0), 2)>>

MarginalColumn ==
    DigitColumn(<<48, 28, 20, 16, 13, 11, 9, 0, 15>>,
                <<17, 29, 31, 42, 58, 60, 75, 81, 93>>, -1)

NinesColumn == <<Run(Num(-95, 0), 1), Run(Num(9, -5), 1)>>

MixedColumn ==
    <<Run(Num(123, 0), 1), Run(Num(-123, 0), 1), Run(Num(123, -5), 1),
      Run(Num(999999, 0), 1)>>

BlankColumn == <<Run(NaN, 1), Run(Num(0, 0), 1), Run(Num(5, -1), 1)>>

InfColumn == <<Run(Num(0, 0), 1), Run(NegInf, 1)>>

Tables ==
    [A |-> [columns |-> <<"close", "marginal", "nines">>,
            data |-> [close |-> CloseColumn, marginal |-> MarginalColumn,
                      nines |-> NinesColumn]],
     B |-> [columns |-> <<"mixed", "blank", "inf">>,
            data |-> [mixed |-> MixedColumn, blank |-> BlankColumn,
                      inf |-> InfColumn]]]

TableNames == DOMAIN Tables

(* analyze is called with a column of the table or with a name no table has *)
MissingField == "volume"
FieldNames(df) == {df.columns[i] : i \in 1..Len(df.columns)} \cup {MissingField}
AllNames == UNION {FieldNames(Tables[t]) : t \in TableNames}

(* <<alpha in units of 10^-3, ks_confidence in percent>>: the defaults,    *)
(* a stricter alpha with another supported level, an unsupported level     *)
Settings == {<<50, 95>>, <<10, 90>>, <<50, 80>>}

(* what batch_analyze is called with *)
BatchSettings == {<<50, 95>>, <<50, 80>>}

(* what the test methods are called with *)
Alphas == {50, 10}
Confidences == {90, 95, 99, 80}

(* the longest list of fields given to batch_analyze *)
MaxFields == 2

(* batch_analyze is called with every list of at most MaxFields of these   *)
(* names, and with the column whose conversion raises                     *)
BatchNames == {"close", "blank"}

FieldLists == UNION {[1..n -> BatchNames] : n \in 0..MaxFields} \cup {<<"inf">>}

(***************************************************************************)
(* YFinanceLoader.get_stock_info                                           *)
(* A dict is a function from its keys; the value Yahoo holds for a key of  *)
(* a ticker is written <<ticker, key>>.                                    *)
(***************************************************************************)
(* the tickers argument: one symbol as a str, or a list of symbols *)
Str(symbol) == [str |-> symbol]
List(symbols) == [list |-> symbols]

(* if isinstance(tickers, str): tickers = [tickers] *)
AsList(tickers) == IF "str" \in DOMAIN tickers THEN <<tickers.str>> ELSE tickers.list

(* yf.Ticker(ticker).info, when the fetch succeeds *)
InfoKeys == {"symbol", "marketCap", "sharesOutstanding"}
Info(ticker) == [key \in InfoKeys |-> IF key = "symbol" THEN ticker ELSE <<ticker, key>>]

(* what is appended to stock_data for a fetched ticker: the chosen fields  *)
(* (None where info has no such key) with the symbol, or all of info when  *)
(* fields is None or empty                                                 *)
StockRecord(ticker, fields) ==
    LET data == Info(ticker)
    IN IF ~IsNone(fields) /\ Len(Get(fields)) > 0
       THEN [key \in {Get(fields)[i] : i \in 1..Len(Get(fields))} \cup {"symbol"} |->
               IF key = "symbol" THEN ticker
               ELSE IF key \in DOMAIN data THEN data[key] ELSE None]
       ELSE data

(* pd.DataFrame(stock_data): one row per dict, in order *)
DataFrame(stock_data) == [rows |-> stock_data]

(* variant: the wait follows every failed attempt *)
ShouldSleepAlways(attempt, max_retries) == attempt < max_retries

(* if attempt < self.max_retries - 1 *)
ShouldSleep(attempt, max_retries) == attempt < max_retries - 1

(* one call of yf.Ticker(...).info and one call of time.sleep, as the      *)
(* outside sees them                                                       *)
FetchEvent(ticker_index, attempt, ok) ==
    [kind |-> "fetch", ticker |-> ticker_index, attempt |-> attempt, ok |-> ok,
     seconds |-> 0]
SleepEvent(ticker_index, attempt, seconds) ==
    [kind |-> "sleep", ticker |-> ticker_index, attempt |-> attempt, ok |-> FALSE,
     seconds |-> seconds]

(* a YFinanceLoader with no get_stock_info call made yet: its two          *)
(* attributes, and the locals of the call to come                          *)
NewLoader(max_retries, delay) ==
    [max_retries  |-> max_retries,
     delay        |-> delay,
     pc           |-> "idle",
     tickers      |-> <<>>,
     fields       |-> None,
     as_dataframe |-> TRUE,
     stock_data   |-> <<>>,
     ticker_index |-> 0,
     attempt      |-> 0,
     events       |-> <<>>,
     out          |-> None]

(* the most tickers in one call and the largest max_retries *)
MaxTickers == 2
MaxRetries == 3

TickerNames == {"AAPL", "MSFT"}
TickerInputs ==
    {Str("AAPL")} \cup {List(l) : l \in UNION {[1..n -> TickerNames] : n \in 0..MaxTickers}}
FieldChoices == {None, Some(<<>>), Some(<<"marketCap", "beta">>)}
Delays == {0, 1}

(***************************************************************************)
(* State                                                                   *)
(***************************************************************************)
VARIABLES
    theoretical_distribution,   \* self.theoretical_distribution
    observed_distribution,      \* self.observed_distribution
    field_name,                 \* self.field_name
    raw_data,                   \* self.raw_data
    valid_data,                 \* self.valid_data
    lastCall,                   \* the most recent call and its arguments
    lastResult,                 \* what it returned or raised
    trace,                      \* the analyze calls it made and the stages they ran
    returned,                   \* some analyze call on this analyzer returned a report
    stored,                     \* some analyze call stored an observed distribution
    repeated,                   \* the last call was analyze with the inputs of the call before it
    kept,                       \* a report the caller holds on to, with the dict object in it
    loader                      \* a YFinanceLoader and its get_stock_info call, or None

vars == <<theoretical_distribution, observed_distribution, field_name, raw_data,
          valid_data, lastCall, lastResult, trace, returned, stored, repeated, kept,
          loader>>

Self ==
    [theoretical_distribution |-> theoretical_distribution,
     observed_distribution    |-> observed_distribution,
     field_name               |-> field_name,
     raw_data                 |-> raw_data,
     valid_data               |-> valid_data]

SetSelf(self) ==
    /\ theoretical_distribution' = self.theoretical_distribution
    /\ observed_distribution' = self.observed_distribution
    /\ field_name' = self.field_name
    /\ raw_data' = self.raw_data
    /\ valid_data' = self.valid_data

Call(op, df, fields, alpha, ks_confidence) ==
    [op |-> op, df |-> df, fields |-> fields, alpha |-> alpha,
     ks_confidence |-> ks_confidence]

HasStep(calls, step) ==
    \E i \in 1..Len(calls) : \E j \in 1..Len(calls[i].steps) : calls[i].steps[j] = step

Init ==
    /\ theoretical_distribution = NewAnalyzer.theoretical_distribution
    /\ observed_distribution = NewAnalyzer.observed_distribution
    /\ field_name = NewAnalyzer.field_name
    /\ raw_data = NewAnalyzer.raw_data
    /\ valid_data = NewAnalyzer.valid_data
    /\ lastCall = Call("__init__", "", <<>>, 0, 0)
    /\ lastResult = Return(None)
    /\ trace = <<>>
    /\ returned = FALSE
    /\ stored = FALSE
    /\ repeated = FALSE
    /\ kept = None
    /\ loader = None

(***************************************************************************)
(* Actions: one per method a caller can invoke                             *)
(***************************************************************************)
AnalyzeWith(tables, names, settings) ==
    \E t \in tables, setting \in settings :
      \E field \in FieldNames(Tables[t]) \cap names :
        \E r \in {analyze(Self, Tables[t], field, setting[1], setting[2])} :
        LET calls == <<[field |-> field, ok |-> r.out.ok, steps |-> r.steps]>>
        IN /\ SetSelf(r.self)
           /\ lastCall' = Call("analyze", t, <<field>>, setting[1], setting[2])
           /\ lastResult' = r.out
           /\ trace' = calls
           /\ returned' = (returned \/ r.out.ok)
           /\ stored' = (stored \/ HasStep(calls, "store_observed"))
           /\ repeated' = (lastCall' = lastCall)

Analyze ==
    /\ AnalyzeWith(TableNames, AllNames, Settings)
    /\ UNCHANGED <<kept, loader>>

BatchAnalyzeWith(tables, lists, settings) ==
    \E t \in tables, fields \in lists, setting \in settings :
        \E r \in {batch_analyze(Self, Tables[t], fields, setting[1], setting[2])} :
           /\ SetSelf(r.self)
           /\ lastCall' = Call("batch_analyze", t, fields, setting[1], setting[2])
           /\ lastResult' = r.out
           /\ trace' = r.calls
           /\ returned' = (returned \/ \E i \in 1..Len(r.calls) : r.calls[i].ok)
           /\ stored' = (stored \/ HasStep(r.calls, "store_observed"))
           /\ repeated' = FALSE

BatchAnalyze ==
    /\ BatchAnalyzeWith(TableNames, FieldLists, BatchSettings)
    /\ UNCHANGED <<kept, loader>>

ChiSquareTest ==
    \E alpha \in Alphas :
        /\ lastCall' = Call("_chi_square_test", "", <<>>, alpha, 0)
        /\ lastResult' = _chi_square_test(Self, alpha)
        /\ trace' = <<>>
        /\ repeated' = FALSE
        /\ UNCHANGED <<theoretical_distribution, observed_distribution, field_name,
                       raw_data, valid_data, returned, stored, kept, loader>>

KolmogorovSmirnovTest ==
    \E confidence_level \in Confidences :
        \E r \in {_kolmogorov_smirnov_test(Self, confidence_level)} :
           /\ lastCall' = Call("_kolmogorov_smirnov_test", "", <<>>, 0, confidence_level)
           /\ lastResult' = IF r.ok THEN Return(r.value) ELSE Raise(r.error)
           /\ trace' = <<[field |-> "", ok |-> r.ok, steps |-> r.steps]>>
           /\ repeated' = FALSE
           /\ UNCHANGED <<theoretical_distribution, observed_distribution, field_name,
                          raw_data, valid_data, returned, stored, kept, loader>>

MeanAbsoluteDeviation ==
    /\ lastCall' = Call("_mean_absolute_deviation", "", <<>>, 0, 0)
    /\ lastResult' = _mean_absolute_deviation(Self)
    /\ trace' = <<>>
    /\ repeated' = FALSE
    /\ UNCHANGED <<theoretical_distribution, observed_distribution, field_name,
                   raw_data, valid_data, returned, stored, kept, loader>>

Next ==
    \/ Analyze
    \/ BatchAnalyze
    \/ ChiSquareTest
    \/ KolmogorovSmirnovTest
    \/ MeanAbsoluteDeviation

Spec == Init /\ [][Next]_vars

(***************************************************************************)
(* The pure functions on drawn arguments: the distribution of a digit      *)
(* sample, and the MAD band with the summary it leads to                   *)
(***************************************************************************)
(* the longest drawn sample, in runs, and the longest run *)
MaxSample == 2
MaxRun == 2

(* how far around each MAD threshold the drawn values go *)
MadSpread == 8

Samples ==
    UNION {[1..n -> {Run(d, k) : d \in Digits, k \in 1..MaxRun}] : n \in 0..MaxSample}

MadValues ==
    {0, 200000} \cup {t + j : t \in {MadLow, MadAcceptable, MadMarginal},
                              j \in (0 - MadSpread)..MadSpread}

(* the columns the KS test is run on, each after the stores of analyze *)
KsColumns == {<<"A", "close">>, <<"A", "marginal">>, <<"A", "nines">>, <<"B", "mixed">>}

(* how far around a critical value the drawn statistics go *)
KsSpread == 3
KsCriticalValues == {CriticalValue(critical_values_map[c], n) :
                        c \in DOMAIN critical_values_map, n \in {2, 100, 160}}

(* the significance levels the chi-square decision is drawn with *)
ChiAlphas == {1, 10, 50, 100}

(* the analyzer as analyze leaves it at line 314 for a column *)
AnalyzerHolding(df, field) ==
    StoreSample(StoreField(NewAnalyzer, df, field),
                _extract_first_digits(df.data[field]).value)

(* the calls made: one function and its arguments each *)
PureCalls ==
    {[op |-> "_calculate_observed_distribution", first_digits |-> first_digits] :
        first_digits \in Samples}
    \cup
    {[op |-> "classify", mad |-> mad, chi_significant |-> chi_significant,
      ks_significant |-> ks_significant] :
        mad \in MadValues, chi_significant \in BOOLEAN, ks_significant \in BOOLEAN}
    \cup
    {[op |-> "_kolmogorov_smirnov_test", df |-> column[1], field |-> column[2],
      confidence_level |-> confidence_level] :
        column \in KsColumns, confidence_level \in DOMAIN critical_values_map}
    \cup
    {[op |-> "ks_decision", statistic |-> critical_value + j,
      critical_value |-> critical_value, confidence_level |-> 95] :
        critical_value \in KsCriticalValues, j \in (0 - KsSpread)..KsSpread}
    \cup
    {[op |-> "_chi_square_test", df |-> column[1], field |-> column[2],
      alpha |-> alpha] : column \in KsColumns, alpha \in Alphas}
    \cup
    {[op |-> "chi_decision", statistic |-> Chi2Table[i][2], p_value |-> Chi2Table[i][1],
      alpha |-> alpha] : i \in 1..Len(Chi2Table), alpha \in ChiAlphas}

NotCalled == Raise([error |-> "not called yet"])

PureInit ==
    /\ theoretical_distribution = NewAnalyzer.theoretical_distribution
    /\ observed_distribution = NewAnalyzer.observed_distribution
    /\ field_name = NewAnalyzer.field_name
    /\ raw_data = NewAnalyzer.raw_data
    /\ valid_data = NewAnalyzer.valid_data
    /\ lastCall \in PureCalls
    /\ lastResult = NotCalled
    /\ trace = <<>>
    /\ returned = FALSE
    /\ stored = FALSE
    /\ repeated = FALSE
    /\ kept = None
    /\ loader = None

ObservedDistribution ==
    /\ lastResult = NotCalled
    /\ lastCall.op = "_calculate_observed_distribution"
    /\ lastResult' = Return(_calculate_observed_distribution(lastCall.first_digits))
    /\ UNCHANGED <<theoretical_distribution, observed_distribution, field_name,
                   raw_data, valid_data, lastCall, trace, returned, stored, repeated, kept,
                   loader>>

(* the tail of _mean_absolute_deviation and _generate_summary, as analyze  *)
(* chains them, on a drawn mad and two drawn significance flags            *)
Classify ==
    /\ lastResult = NotCalled
    /\ lastCall.op = "classify"
    /\ lastResult' =
         Return([mean_absolute_deviation |-> MadResult(lastCall.mad),
                 summary |-> _generate_summary(
                                 [significant |-> lastCall.chi_significant],
                                 [significant |-> lastCall.ks_significant],
                                 MadResult(lastCall.mad))])
    /\ UNCHANGED <<theoretical_distribution, observed_distribution, field_name,
                   raw_data, valid_data, lastCall, trace, returned, stored, repeated, kept,
                   loader>>

KsTest ==
    /\ lastResult = NotCalled
    /\ lastCall.op = "_kolmogorov_smirnov_test"
    /\ \E r \in {_kolmogorov_smirnov_test(
                     AnalyzerHolding(Tables[lastCall.df], lastCall.field),
                     lastCall.confidence_level)} :
          lastResult' = IF r.ok THEN Return(r.value) ELSE Raise(r.error)
    /\ UNCHANGED <<theoretical_distribution, observed_distribution, field_name,
                   raw_data, valid_data, lastCall, trace, returned, stored, repeated, kept,
                   loader>>

(* the returned dict of the KS test on a drawn statistic and critical value *)
KsDecision ==
    /\ lastResult = NotCalled
    /\ lastCall.op = "ks_decision"
    /\ lastResult' = Return(KsReport(lastCall.statistic, lastCall.critical_value,
                                     lastCall.confidence_level))
    /\ UNCHANGED <<theoretical_distribution, observed_distribution, field_name,
                   raw_data, valid_data, lastCall, trace, returned, stored, repeated, kept,
                   loader>>

ChiTest ==
    /\ lastResult = NotCalled
    /\ lastCall.op = "_chi_square_test"
    /\ lastResult' = _chi_square_test(AnalyzerHolding(Tables[lastCall.df], lastCall.field),
                                       lastCall.alpha)
    /\ UNCHANGED <<theoretical_distribution, observed_distribution, field_name,
                   raw_data, valid_data, lastCall, trace, returned, stored, repeated, kept,
                   loader>>

(* the returned dict of the chi-square test on a drawn p-value and alpha *)
ChiDecision ==
    /\ lastResult = NotCalled
    /\ lastCall.op = "chi_decision"
    /\ lastResult' = Return(ChiReport(lastCall.statistic, lastCall.p_value, lastCall.alpha))
    /\ UNCHANGED <<theoretical_distribution, observed_distribution, field_name,
                   raw_data, valid_data, lastCall, trace, returned, stored, repeated, kept,
                   loader>>

PureNext ==
    \/ ObservedDistribution
    \/ Classify
    \/ KsTest
    \/ KsDecision
    \/ ChiTest
    \/ ChiDecision

PureSpec == PureInit /\ [][PureNext]_vars

(***************************************************************************)
(* YFinanceLoader.get_stock_info, one action per step of its two loops.    *)
(* loader.pc = "loop" is the head of `for attempt in range(max_retries)`   *)
(* for the ticker at ticker_index, with attempt the next value of the      *)
(* range; whether a fetch succeeds is the network's choice.                *)
(***************************************************************************)
analyzerVars ==
    <<theoretical_distribution, observed_distribution, field_name, raw_data,
      valid_data, lastCall, lastResult, trace, returned, stored, repeated, kept>>

LoaderInit ==
    /\ theoretical_distribution = NewAnalyzer.theoretical_distribution
    /\ observed_distribution = NewAnalyzer.observed_distribution
    /\ field_name = NewAnalyzer.field_name
    /\ raw_data = NewAnalyzer.raw_data
    /\ valid_data = NewAnalyzer.valid_data
    /\ lastCall = Call("__init__", "", <<>>, 0, 0)
    /\ lastResult = Return(None)
    /\ trace = <<>>
    /\ returned = FALSE
    /\ stored = FALSE
    /\ repeated = FALSE
    /\ kept = None
    /\ loader \in {NewLoader(max_retries, delay) :
                      max_retries \in 0..MaxRetries, delay \in Delays}

(* the call, up to stock_data = [] *)
GetStockInfo ==
    /\ loader.pc = "idle"
    /\ \E tickers \in TickerInputs, fields \in FieldChoices, as_dataframe \in BOOLEAN :
          loader' = [loader EXCEPT !.pc = "loop",
                                   !.tickers = AsList(tickers),
                                   !.fields = fields,
                                   !.as_dataframe = as_dataframe,
                                   !.stock_data = <<>>,
                                   !.ticker_index = 1,
                                   !.attempt = 0]
    /\ UNCHANGED analyzerVars

(* the try block runs through: the record is appended, break *)
FetchSucceeds ==
    /\ loader.pc = "loop"
    /\ loader.ticker_index <= Len(loader.tickers)
    /\ loader.attempt < loader.max_retries
    /\ loader' = [loader EXCEPT
                    !.events = Append(@, FetchEvent(loader.ticker_index,
                                                    loader.attempt, TRUE)),
                    !.stock_data = Append(@, StockRecord(
                                                loader.tickers[loader.ticker_index],
                                                loader.fields)),
                    !.ticker_index = @ + 1,
                    !.attempt = 0]
    /\ UNCHANGED analyzerVars

(* the try block raises: the error is logged, and the loop waits or goes   *)
(* on to the next value of the range                                       *)
FetchFails ==
    /\ loader.pc = "loop"
    /\ loader.ticker_index <= Len(loader.tickers)
    /\ loader.attempt < loader.max_retries
    /\ loader' = IF ShouldSleep(loader.attempt, loader.max_retries)
                 THEN [loader EXCEPT
                         !.events = Append(@, FetchEvent(loader.ticker_index,
                                                         loader.attempt, FALSE)),
                         !.pc = "sleep"]
                 ELSE [loader EXCEPT
                         !.events = Append(@, FetchEvent(loader.ticker_index,
                                                         loader.attempt, FALSE)),
                         !.attempt = @ + 1]
    /\ UNCHANGED analyzerVars

(* time.sleep(self.delay) *)
Sleep ==
    /\ loader.pc = "sleep"
    /\ loader' = [loader EXCEPT
                    !.events = Append(@, SleepEvent(loader.ticker_index,
                                                    loader.attempt, loader.delay)),
                    !.attempt = @ + 1,
                    !.pc = "loop"]
    /\ UNCHANGED analyzerVars

(* the range is used up without a break: on to the next ticker *)
NextTicker ==
    /\ loader.pc = "loop"
    /\ loader.ticker_index <= Len(loader.tickers)
    /\ loader.attempt >= loader.max_retries
    /\ loader' = [loader EXCEPT !.ticker_index = @ + 1, !.attempt = 0]
    /\ UNCHANGED analyzerVars

(* the tickers are used up: return *)
ReturnStockData ==
    /\ loader.pc = "loop"
    /\ loader.ticker_index > Len(loader.tickers)
    /\ loader' = [loader EXCEPT
                    !.pc = "returned",
                    !.out = Some(IF loader.as_dataframe
                                 THEN Return(DataFrame(loader.stock_data))
                                 ELSE Return(loader.stock_data))]
    /\ UNCHANGED analyzerVars

LoaderNext ==
    \/ GetStockInfo
    \/ FetchSucceeds
    \/ FetchFails
    \/ Sleep
    \/ NextTicker
    \/ ReturnStockData

LoaderSpec == LoaderInit /\ [][LoaderNext]_vars

(***************************************************************************)
(* Properties                                                              *)
(***************************************************************************)
Follows == "The data likely follows Benford's Law."
DoesNotFollow == "The data likely does not follow Benford's Law. Multiple tests indicate deviation."

(* the fields of a list, each once, in the order of their first mention *)
RECURSIVE DistinctInOrder(_)
DistinctInOrder(fields) ==
    IF Len(fields) = 0 THEN <<>>
    ELSE LET n == Len(fields)
             before == DistinctInOrder(SubSeq(fields, 1, n - 1))
         IN IF \E j \in 1..(n - 1) : fields[j] = fields[n]
            THEN before ELSE Append(before, fields[n])

(* C1: batch_analyze returns a mapping with exactly one entry per          *)
(* requested field, its keys in the order the caller listed the fields,    *)
(* and analyze is called for every listed field, in order, whatever the    *)
(* earlier fields' analyses did.                                           *)
C1_BatchOneEntryPerField ==
    lastCall.op = "batch_analyze" =>
        /\ lastResult.ok
        /\ lastResult.value.keys = DistinctInOrder(lastCall.fields)
        /\ Len(lastResult.value.val) = Len(lastResult.value.keys)
        /\ Len(trace) = Len(lastCall.fields)
        /\ \A i \in 1..Len(trace) : trace[i].field = lastCall.fields[i]

C1_Witness ==
    /\ lastCall.op = "batch_analyze"
    /\ lastCall.df = "A"
    /\ lastCall.fields = <<"blank", "close">>
    /\ lastCall.ks_confidence = 95
    /\ ~trace[1].ok
    /\ trace[2].ok
    /\ lastResult.value.keys = <<"blank", "close">>

(* what batch_analyze stores for a field whose analyze call ended as out *)
EntryFor(out) == IF out.ok THEN out.value ELSE [error |-> out.error]

(* C2: batch_analyze never raises; under each requested field's key is     *)
(* the error record of the error analyze raises for that field, or the     *)
(* full report analyze returns for it.                                     *)
C2_BatchNeverRaises ==
    lastCall.op = "batch_analyze" =>
        /\ lastResult.ok
        /\ \A i \in 1..Len(lastCall.fields) :
             LET field == lastCall.fields[i]
                 alone == analyze(NewAnalyzer, Tables[lastCall.df], field,
                                  lastCall.alpha, lastCall.ks_confidence)
             IN /\ InKeys(lastResult.value, field)
                /\ DictGet(lastResult.value, field) = EntryFor(alone.out)

C2_Witness ==
    /\ lastCall.op = "batch_analyze"
    /\ lastCall.df = "A"
    /\ lastCall.fields = <<"blank", "close">>
    /\ lastCall.ks_confidence = 80
    /\ lastResult.ok
    /\ DictGet(lastResult.value, "blank")
         = [error |-> FieldNotFoundError("blank", Tables["A"])]
    /\ DictGet(lastResult.value, "close") = [error |-> InvalidConfidenceError]

TestOps == {"_chi_square_test", "_kolmogorov_smirnov_test", "_mean_absolute_deviation"}

(* C3, as stated: a test method called while no analyze call has returned  *)
(* a report fails with the not-analyzed error.                             *)
C3_AsStated ==
    (lastCall.op \in TestOps /\ ~returned) => lastResult = Raise(NotAnalyzedError)

(* C3: a test method called while no analyze call has got as far as        *)
(* storing an observed distribution fails with the not-analyzed error,     *)
(* and no observed distribution is stored then.                            *)
C3_NotAnalyzed ==
    /\ (lastCall.op \in TestOps /\ ~stored) => lastResult = Raise(NotAnalyzedError)
    /\ ~stored => IsNone(observed_distribution)

C3_Witness ==
    /\ lastCall.op = "_mean_absolute_deviation"
    /\ ~stored
    /\ field_name = Some("blank")
    /\ lastResult = Raise(NotAnalyzedError)

(* C4: analyze with a field that is no column of the table raises the      *)
(* field-not-found error, naming the field and listing the table's columns.*)
C4_FieldNotFound ==
    (lastCall.op = "analyze"
       /\ \A i \in 1..Len(Tables[lastCall.df].columns) :
             Tables[lastCall.df].columns[i] # lastCall.fields[1]) =>
        /\ ~lastResult.ok
        /\ lastResult.error.error = "Field not found in DataFrame columns"
        /\ lastResult.error.field = lastCall.fields[1]
        /\ lastResult.error.columns = Tables[lastCall.df].columns

C4_Witness ==
    /\ lastCall.op = "analyze"
    /\ lastCall.df = "B"
    /\ lastCall.fields = <<"volume">>
    /\ returned
    /\ ~lastResult.ok
    /\ lastResult.error.columns = <<"mixed", "blank", "inf">>

(* an entry that is null, zero, or whose text has no leading digit 1..9 *)
NoLeadingDigit(c) ==
    \/ c.k = "nan"
    \/ (c.k = "num" /\ c.m = 0)
    \/ \A d \in Digits : FirstChar(AbsCell(c)) # DigitChars[d]

(* C5: analyze on an existing field whose every entry is null, zero or     *)
(* without a leading digit 1..9 raises the no-valid-data error naming the  *)
(* field.                                                                  *)
C5_NoValidData ==
    (lastCall.op = "analyze"
       /\ lastCall.fields[1] \in Columns(Tables[lastCall.df])
       /\ \A i \in 1..Len(Tables[lastCall.df].data[lastCall.fields[1]]) :
             NoLeadingDigit(Tables[lastCall.df].data[lastCall.fields[1]][i].cell)) =>
        lastResult = Raise(NoValidDataError(lastCall.fields[1]))

KsComputations == {"ks_cumulative", "ks_statistic", "ks_critical_value"}

(* C6: whenever the KS test is reached with an observed distribution and a *)
(* confidence level outside 90, 95, 99, directly or through analyze, it    *)
(* raises the invalid-confidence error and none of its computations ran.   *)
C6_ConfidenceCheckedFirst ==
    (/\ lastCall.op \in {"analyze", "_kolmogorov_smirnov_test"}
     /\ lastCall.ks_confidence \notin {90, 95, 99}
     /\ \/ lastCall.op = "analyze" /\ HasStep(trace, "chi_square")
        \/ lastCall.op = "_kolmogorov_smirnov_test" /\ ~IsNone(observed_distribution)) =>
        /\ lastResult = Raise(InvalidConfidenceError)
        /\ \A step \in KsComputations : ~HasStep(trace, step)

C6_Witness ==
    /\ lastCall.op = "_kolmogorov_smirnov_test"
    /\ lastCall.ks_confidence = 80
    /\ stored
    /\ ~returned
    /\ lastResult = Raise(InvalidConfidenceError)

(* how often digit d occurs in a sample *)
Occurrences(first_digits, d) ==
    Cardinality({i \in 1..Len(Elements(first_digits)) : Elements(first_digits)[i] = d})

(* C7: the observed distribution of a non-empty sample of digits 1..9 has  *)
(* the keys 1..9, observed[d] = occurrences of d / sample size, and the    *)
(* proportions sum to 1; that of the empty sample is zero at every key.    *)
C7_ObservedDistribution ==
    (lastCall.op = "_calculate_observed_distribution" /\ lastResult.ok) =>
        LET size == Len(Elements(lastCall.first_digits))
            observed == lastResult.value
        IN /\ DOMAIN observed = 1..9
           /\ \A d \in 1..9 :
                /\ observed[d][2] > 0
                /\ observed[d][1] * size
                     = Occurrences(lastCall.first_digits, d) * observed[d][2]
                /\ size = 0 => observed[d][1] = 0
           /\ size > 0 =>
                /\ \A d \in 1..9 : size % observed[d][2] = 0
                /\ SumSeq([d \in 1..9 |->
                             observed[d][1] * (size \div observed[d][2])]) = size

C7_Witness ==
    /\ lastCall.op = "_calculate_observed_distribution"
    /\ lastResult.ok
    /\ lastCall.first_digits = <<Run(9, 1), Run(1, 2)>>
    /\ lastResult.value[1] = <<2, 3>>
    /\ lastResult.value[9] = <<1, 3>>
    /\ lastResult.value[5][1] = 0

(* the reports of the last call: analyze's, or those in batch_analyze's mapping *)
LastReports ==
    IF lastCall.op = "analyze" /\ lastResult.ok THEN {lastResult.value}
    ELSE IF lastCall.op = "batch_analyze" /\ lastResult.ok
    THEN {lastResult.value.val[i] :
            i \in {j \in 1..Len(lastResult.value.val) :
                     "error" \notin DOMAIN lastResult.value.val[j]}}
    ELSE {}

(* C8: a report's summary says the data follows Benford's Law, with the    *)
(* MAD conformity label, exactly when at least two of: chi-square not      *)
(* significant, KS not significant, MAD < 0.015 hold; otherwise it says    *)
(* the data does not follow it.                                            *)
C8_SummaryMajority ==
    \A report \in LastReports :
        LET chi == ~report.chi_square_test.significant
            ks  == ~report.ks_test.significant
            mad == report.mean_absolute_deviation.mad < 15000
        IN IF (chi /\ ks) \/ (chi /\ mad) \/ (ks /\ mad)
           THEN /\ report.summary.verdict = Follows
                /\ report.summary.detected
                     = report.mean_absolute_deviation.conformity_level
           ELSE /\ report.summary.verdict = DoesNotFollow
                /\ report.summary.detected = ""

C8_Witness ==
    /\ lastCall.op = "analyze"
    /\ lastResult.ok
    /\ lastResult.value.chi_square_test.significant
    /\ ~lastResult.value.ks_test.significant
    /\ lastResult.value.mean_absolute_deviation.mad < 15000
    /\ lastResult.value.summary.verdict = Follows

(* C9: MAD < 0.006 is Low, 0.006 <= MAD < 0.012 Acceptable, 0.012 <= MAD   *)
(* < 0.015 Marginal and MAD >= 0.015 High Dispersion; with the other two   *)
(* tests split, the summary's vote goes against conformity exactly in the  *)
(* High band.                                                              *)
C9_MadBands ==
    (lastCall.op = "classify" /\ lastResult.ok) =>
        LET mad == lastCall.mad
            level == lastResult.value.mean_absolute_deviation.conformity_level
        IN /\ (mad < 6000) <=> (level = LowDispersion)
           /\ (6000 <= mad /\ mad < 12000) <=> (level = AcceptableDispersion)
           /\ (12000 <= mad /\ mad < 15000) <=> (level = MarginalDispersion)
           /\ (15000 <= mad) <=> (level = HighDispersion)
           /\ Cardinality({LowDispersion, AcceptableDispersion,
                           MarginalDispersion, HighDispersion}) = 4
           /\ (lastCall.chi_significant # lastCall.ks_significant) =>
                ((level = HighDispersion)
                   <=> (lastResult.value.summary.verdict = DoesNotFollow))

C9_Witness ==
    /\ lastCall.op = "classify"
    /\ lastResult.ok
    /\ lastCall.mad = 12000
    /\ lastCall.chi_significant
    /\ ~lastCall.ks_significant
    /\ lastResult.value.mean_absolute_deviation.conformity_level = MarginalDispersion
    /\ lastResult.value.summary.verdict = Follows

(* C10: an analyze call with the table, field, alpha and ks_confidence of  *)
(* the call just before it returns (or raises) exactly what that call did. *)
C10_RepeatEqual ==
    [][(lastCall.op = "analyze" /\ lastCall' = lastCall) => lastResult' = lastResult]_vars

C10_Witness ==
    /\ repeated
    /\ lastCall.op = "analyze"
    /\ lastCall.fields = <<"marginal">>
    /\ lastResult.ok
    /\ lastResult.value.valid_values = 160

(* the column the last analyze call was given *)
LastColumn == Tables[lastCall.df].data[lastCall.fields[1]]

(* the first significant decimal digit of each non-null, nonzero, finite   *)
(* entry of a column, in the column's order                                *)
SignificantDigits(column) ==
    LET retained == SelectSeq(Elements(column), LAMBDA c : c.k = "num" /\ c.m # 0)
    IN [i \in 1..Len(retained) |-> LeadDigit(Abs(retained[i].m))]

(* C11: the digit sample of a successful analyze call holds, for every     *)
(* retained value, the first significant digit of its absolute value,      *)
(* whatever its sign and magnitude: [123, -123, 0.00123, 999999] gives     *)
(* [1, 1, 1, 9].                                                           *)
C11_FirstSignificantDigit ==
    (lastCall.op = "analyze" /\ lastResult.ok) =>
        Elements(Get(valid_data)) = SignificantDigits(LastColumn)

(* how many entries of a column are neither null nor zero *)
NonNullNonZero(column) ==
    Cardinality({i \in 1..Len(Elements(column)) :
                    /\ Elements(column)[i].k # "nan"
                    /\ ~(Elements(column)[i].k = "num" /\ Elements(column)[i].m = 0)})

(* C12: every element of a stored digit sample is a digit 1..9, and the    *)
(* sample an analyze call stores is no longer than the number of non-null, *)
(* nonzero entries of its column.                                          *)
C12_SampleDigits ==
    /\ ~IsNone(valid_data) =>
          \A i \in 1..Len(Get(valid_data)) : Get(valid_data)[i].cell \in 1..9
    /\ (lastCall.op = "analyze" /\ HasStep(trace, "store_valid")) =>
          SeriesLen(Get(valid_data)) <= NonNullNonZero(LastColumn)

C12_Witness ==
    /\ lastCall.op = "analyze"
    /\ lastCall.fields = <<"mixed">>
    /\ HasStep(trace, "store_valid")
    /\ SeriesLen(Get(valid_data)) = 3
    /\ NonNullNonZero(LastColumn) = 4

OnFresh(field) ==
    analyze(NewAnalyzer, Tables[lastCall.df], field,
            lastCall.alpha, lastCall.ks_confidence).out

(* C14: whatever the analyzer did before, analyze returns a report exactly *)
(* when it does so on a fresh analyzer, and the same report; every         *)
(* successful entry of batch_analyze is the fresh analyzer's report for    *)
(* that field.                                                             *)
C14_HistoryIndependent ==
    /\ lastCall.op = "analyze" =>
          /\ lastResult.ok = OnFresh(lastCall.fields[1]).ok
          /\ lastResult.ok => lastResult.value = OnFresh(lastCall.fields[1]).value
    /\ (lastCall.op = "batch_analyze" /\ lastResult.ok) =>
          \A i \in 1..Len(lastResult.value.keys) :
             "error" \notin DOMAIN lastResult.value.val[i] =>
                 /\ OnFresh(lastResult.value.keys[i]).ok
                 /\ lastResult.value.val[i] = OnFresh(lastResult.value.keys[i]).value

C14_Witness ==
    /\ lastCall.op = "batch_analyze"
    /\ lastCall.df = "A"
    /\ lastCall.fields = <<"close", "close">>
    /\ lastCall.ks_confidence = 95
    /\ Len(trace) = 2
    /\ trace[1].ok
    /\ trace[2].ok
    /\ lastResult.ok
    /\ DictGet(lastResult.value, "close").valid_values = 100
    /\ DictGet(lastResult.value, "close").total_values = 105

(***************************************************************************)
(* A returned report in the caller's hands.  The report holds the dict     *)
(* object self.observed_distribution pointed to when it was built, and the *)
(* analyzer's one theoretical_distribution dict.  kept is None or          *)
(*   [report:   the report as it was when returned,                        *)
(*    observed: what the dict object in it holds now,                      *)
(*    shared:   self.observed_distribution is still that object]           *)
(***************************************************************************)
(* variant: the dict self.observed_distribution points to is updated *)
RebindInPlace(holder, value) ==
    IF holder.shared THEN [holder EXCEPT !.observed = value] ELSE holder

(* self.observed_distribution = <the new dict built by                     *)
(* _calculate_observed_distribution>: the attribute leaves the old object  *)
Rebind(holder, value) == [holder EXCEPT !.shared = FALSE]

(* kept after a call that made the analyze calls `calls`, ended as out and *)
(* left self.observed_distribution = observed; keep: the caller holds on   *)
(* to the report just returned                                             *)
KeptAfter(holder, calls, out, observed, keep) ==
    IF keep /\ out.ok
    THEN Some([report |-> out.value, observed |-> Get(observed), shared |-> TRUE])
    ELSE IF IsNone(holder) \/ ~HasStep(calls, "store_observed")
    THEN holder
    ELSE Some(Rebind(Get(holder), Get(observed)))

KeepTables == {"A", "B"}
KeepNames == {"nines", "mixed", "blank", MissingField}
KeepSettings == {<<50, 95>>, <<50, 80>>}
KeepLists == {<<>>, <<"nines">>, <<"blank", "mixed">>}

KeepingAnalyze ==
    \E keep \in BOOLEAN :
        /\ AnalyzeWith(KeepTables, KeepNames, KeepSettings)
        /\ kept' = KeptAfter(kept, trace', lastResult', observed_distribution', keep)
        /\ UNCHANGED loader

LaterBatchAnalyze ==
    /\ BatchAnalyzeWith(KeepTables, KeepLists, KeepSettings)
    /\ kept' = KeptAfter(kept, trace', lastResult', observed_distribution', FALSE)
    /\ UNCHANGED loader

KeepNext ==
    \/ KeepingAnalyze
    \/ LaterBatchAnalyze

KeepSpec == Init /\ [][KeepNext]_vars

(* C15: a report the caller holds stays as it was when analyze returned    *)
(* it, through every later analyze and batch_analyze call: the dict in it  *)
(* still holds the observed distribution it was returned with, and the     *)
(* theoretical distribution it shares with the analyzer is unchanged.      *)
C15_ReportUnchanged ==
    ~IsNone(kept) =>
        /\ Get(kept).observed = Get(kept).report.observed_distribution
        /\ theoretical_distribution = Get(kept).report.theoretical_distribution

C15_Witness ==
    /\ ~IsNone(kept)
    /\ ~Get(kept).shared
    /\ Get(kept).report.field_name = "nines"
    /\ lastCall.op = "analyze"
    /\ lastCall.fields = <<"mixed">>
    /\ lastResult.ok
    /\ observed_distribution # Some(Get(kept).report.observed_distribution)

(* C16: the theoretical distribution has the keys 1..9 and is, after every *)
(* call, what the constructor set; every report carries it.                *)
C16_TheoreticalFixed ==
    /\ DOMAIN theoretical_distribution = 1..9
    /\ theoretical_distribution = NewAnalyzer.theoretical_distribution
    /\ \A report \in LastReports :
          report.theoretical_distribution = NewAnalyzer.theoretical_distribution

C16_Witness ==
    /\ lastCall.op = "batch_analyze"
    /\ lastCall.df = "A"
    /\ lastCall.fields = <<"close", "blank">>
    /\ lastCall.ks_confidence = 95
    /\ lastResult.ok
    /\ "error" \in DOMAIN DictGet(lastResult.value, "blank")
    /\ DictGet(lastResult.value, "close").theoretical_distribution[1] = 30103
    /\ theoretical_distribution[9] = 4576

(* the digit sample of a column, as the plain list of its digits *)
SampleOf(df, field) == Elements(_extract_first_digits(Tables[df].data[field]).value)

(* how many of a list of digits are at most d *)
CountUpTo(sample, d) == Cardinality({i \in 1..Len(sample) : sample[i] <= d})

(* |observed - theoretical| running sums after digit d, in units of 10^-6 *)
RunningGap(sample, d) ==
    LET gap == CountUpTo(sample, d) * 100000
                 - CumulativeSum(Log10Table, d) * Len(sample)
    IN (10 * (IF gap < 0 THEN 0 - gap ELSE gap)) \div Len(sample)

(* C17: the KS statistic is the largest gap between the observed and       *)
(* theoretical running sums over the digits 1..9, the critical value is    *)
(* c / sqrt(N) with c = 1.22, 1.36, 1.63 and N the valid sample size, and  *)
(* the test is significant exactly when the statistic is strictly greater  *)
(* than the critical value.                                                *)
C17_KsDecision ==
    /\ (lastCall.op = "_kolmogorov_smirnov_test" /\ lastResult.ok) =>
          LET sample == SampleOf(lastCall.df, lastCall.field)
              N == Len(sample)
              c == IF lastCall.confidence_level = 90 THEN 122
                   ELSE IF lastCall.confidence_level = 95 THEN 136 ELSE 163
              root == CHOOSE r \in 1..13000 :
                         r * r <= N * 1000000 /\ N * 1000000 < (r + 1) * (r + 1)
              result == lastResult.value
          IN /\ \A d \in 1..9 : RunningGap(sample, d) <= result.statistic
             /\ \E d \in 1..9 : RunningGap(sample, d) = result.statistic
             /\ result.critical_value * root <= c * 10000000
             /\ c * 10000000 < (result.critical_value + 1) * root
             /\ result.significant <=> (result.statistic > result.critical_value)
    /\ (lastCall.op = "ks_decision" /\ lastResult.ok) =>
          /\ lastResult.value.significant
               <=> (lastCall.statistic > lastCall.critical_value)
          /\ lastCall.statistic = lastCall.critical_value =>
               ~lastResult.value.significant

C17_Witness ==
    /\ lastCall.op = "_kolmogorov_smirnov_test"
    /\ lastCall.field = "close"
    /\ lastCall.confidence_level = 95
    /\ lastResult.ok
    /\ lastResult.value.critical_value = 136000
    /\ ~lastResult.value.significant

(* how many of a list of digits equal d *)
CountOf(sample, d) == Cardinality({i \in 1..Len(sample) : sample[i] = d})

(* (observed count - expected count)^2 / expected count for digit d, with  *)
(* the expected count Log10Table[d] * N in units of 10^-5; result in 10^-5 *)
ChiTerm(sample, d) ==
    LET expected == Log10Table[d] * Len(sample)
        gap == CountOf(sample, d) * 100000 - expected
    IN MulDiv(IF gap < 0 THEN 0 - gap ELSE gap, IF gap < 0 THEN 0 - gap ELSE gap, expected)

(* C18: the chi-square statistic sums (observed[d]*N - theoretical[d]*N)^2 *)
(* / (theoretical[d]*N) over the nine digits with N the valid sample size, *)
(* the result reports 8 degrees of freedom, is significant exactly when    *)
(* p_value < alpha, and its text says significantly different exactly     *)
(* then.                                                                   *)
C18_ChiSquareDecision ==
    /\ (lastCall.op = "_chi_square_test" /\ lastResult.ok) =>
          LET sample == SampleOf(lastCall.df, lastCall.field)
              result == lastResult.value
          IN /\ result.statistic = SumSeq([d \in 1..9 |-> ChiTerm(sample, d)])
             /\ result.degrees_of_freedom = 8
             /\ result.significant <=> (result.p_value < lastCall.alpha)
    /\ (lastCall.op = "chi_decision" /\ lastResult.ok) =>
          /\ lastResult.value.degrees_of_freedom = 8
          /\ lastResult.value.significant <=> (lastCall.p_value < lastCall.alpha)
          /\ lastCall.p_value = lastCall.alpha => ~lastResult.value.significant
          /\ lastResult.value.significant <=>
               (lastResult.value.interpretation.text
                  = "Significantly different from Benford's Law (p < alpha)")
          /\ ~lastResult.value.significant <=>
               (lastResult.value.interpretation.text
                  = "Not significantly different from Benford's Law (p >= alpha)")

C18_Witness ==
    /\ lastCall.op = "_chi_square_test"
    /\ lastCall.field = "marginal"
    /\ lastCall.alpha = 50
    /\ lastResult.ok
    /\ lastResult.value.significant
    /\ lastResult.value.p_value = 25

(* the counts and the name a report for `field` of table df must carry *)
CountsRight(report, df, field) ==
    /\ report.field_name = field
    /\ report.total_values = Len(Elements(Tables[df].data[field]))
    /\ report.valid_values = Len(SampleOf(df, field))
    /\ 1 <= report.valid_values
    /\ report.valid_values <= report.total_values

(* C19: in every report the field name is the requested field, the total   *)
(* count is the number of rows of the column, the valid count is the size  *)
(* of the digit sample, and 1 <= valid count <= total count.               *)
C19_ReportCounts ==
    /\ (lastCall.op = "analyze" /\ lastResult.ok) =>
          /\ CountsRight(lastResult.value, lastCall.df, lastCall.fields[1])
          /\ lastResult.value.valid_values = SeriesLen(Get(valid_data))
    /\ (lastCall.op = "batch_analyze" /\ lastResult.ok) =>
          \A i \in 1..Len(lastResult.value.keys) :
             "error" \notin DOMAIN lastResult.value.val[i] =>
                 CountsRight(lastResult.value.val[i], lastCall.df,
                             lastResult.value.keys[i])

C19_Witness ==
    /\ lastCall.op = "analyze"
    /\ lastCall.fields = <<"close">>
    /\ lastResult.ok
    /\ lastResult.value.field_name = "close"
    /\ lastResult.value.total_values = 105
    /\ lastResult.value.valid_values = 100

(* C20: an analyze call that fails because the field is no column of the   *)
(* table leaves field name, raw data, valid sample and observed            *)
(* distribution as they were, so each test method gives afterwards what it *)
(* gave before.                                                            *)
C20_MissingFieldLeavesState ==
    [][(lastCall'.op = "analyze"
          /\ lastCall'.fields[1] \notin Columns(Tables[lastCall'.df])) =>
            /\ ~lastResult'.ok
            /\ field_name' = field_name
            /\ raw_data' = raw_data
            /\ valid_data' = valid_data
            /\ observed_distribution' = observed_distribution
            /\ theoretical_distribution' = theoretical_distribution
            /\ _mean_absolute_deviation(Self') = _mean_absolute_deviation(Self)
            /\ \A alpha \in Alphas :
                  _chi_square_test(Self', alpha) = _chi_square_test(Self, alpha)
            /\ \A confidence_level \in Confidences :
                  _kolmogorov_smirnov_test(Self', confidence_level)
                    = _kolmogorov_smirnov_test(Self, confidence_level)
      ]_vars

C20_Witness ==
    /\ lastCall.op = "analyze"
    /\ lastCall.df = "A"
    /\ lastCall.fields = <<"volume">>
    /\ ~lastResult.ok
    /\ field_name = Some("marginal")
    /\ SeriesLen(Get(valid_data)) = 160
    /\ ~IsNone(observed_distribution)

C22_FailureOrder ==
    lastCall.op = "analyze" =>
        LET field == lastCall.fields[1]
            df == Tables[lastCall.df]
            extracted == _extract_first_digits(df.data[field])
        IN IF field \notin Columns(df)
           THEN /\ lastResult = Raise(FieldNotFoundError(field, df))
                /\ trace[1].steps = <<"check_field">>
           ELSE IF extracted.ok /\ SeriesLen(extracted.value) = 0
           THEN /\ lastResult = Raise(NoValidDataError(field))
                /\ ~HasStep(trace, "store_valid")
                /\ ~HasStep(trace, "chi_square")
                /\ ~HasStep(trace, "ks_check")
           ELSE (extracted.ok /\ lastCall.ks_confidence \notin {90, 95, 99}) =>
                /\ lastResult = Raise(InvalidConfidenceError)
                /\ trace[1].steps = <<"check_field", "store_raw", "extract",
                                       "check_empty", "store_valid", "store_observed",
                                       "chi_square", "ks_check">>
                /\ field_name = Some(field)
                /\ raw_data = Some(df.data[field])
                /\ valid_data = Some(extracted.value)
                /\ observed_distribution
                     = Some(_calculate_observed_distribution(extracted.value))

C22_Witness ==
    /\ lastCall.op = "analyze"
    /\ lastCall.fields = <<"blank">>
    /\ lastCall.ks_confidence = 80
    /\ lastResult = Raise(NoValidDataError("blank"))
    /\ trace[1].steps = <<"check_field", "store_raw", "extract", "check_empty">>
    /\ stored
    /\ ~returned
    /\ field_name = Some("blank")

(* the calls get_stock_info has made: fetches of the ticker at position p, *)
(* and whether one of them succeeded                                       *)
FetchesOf(p) ==
    {i \in 1..Len(loader.events) :
        loader.events[i].kind = "fetch" /\ loader.events[i].ticker = p}
Succeeded(p) == \E i \in FetchesOf(p) : loader.events[i].ok

(* the positions of the tickers that succeeded, ascending *)
SucceededPositions ==
    SelectSeq([p \in 1..Len(loader.tickers) |-> p], LAMBDA p : Succeeded(p))

(* C23: get_stock_info fetches each ticker at most max_retries times and   *)
(* not again after a success; it sleeps, for the delay, only right after   *)
(* a failed attempt that is not the ticker's last and right before the     *)
(* next attempt on that ticker, and does so between any two attempts on a  *)
(* ticker; it returns rather than raises, with one record per ticker that  *)
(* succeeded, in ticker order, after every ticker has either succeeded or  *)
(* failed max_retries times.                                               *)
C23_RetryLoop ==
    LET events == loader.events
        n == Len(loader.tickers)
    IN /\ \A p \in 1..n : Cardinality(FetchesOf(p)) <= loader.max_retries
       /\ \A p \in 1..n : \A i, j \in FetchesOf(p) : i < j => ~events[i].ok
       /\ \A i \in 1..Len(events) :
             events[i].kind = "sleep" =>
                /\ events[i].seconds = loader.delay
                /\ i > 1
                /\ events[i - 1] = FetchEvent(events[i].ticker, events[i].attempt, FALSE)
                /\ events[i].attempt < loader.max_retries - 1
                /\ i < Len(events) =>
                      /\ events[i + 1].kind = "fetch"
                      /\ events[i + 1].ticker = events[i].ticker
                      /\ events[i + 1].attempt = events[i].attempt + 1
                /\ i = Len(events) => loader.pc = "loop"
       /\ \A i \in 1..(Len(events) - 1) :
             (events[i].kind = "fetch" /\ events[i + 1].kind = "fetch") =>
                 events[i + 1].ticker > events[i].ticker
       /\ loader.pc = "returned" =>
             /\ Get(loader.out).ok
             /\ \A p \in 1..n :
                   Succeeded(p) \/ Cardinality(FetchesOf(p)) = loader.max_retries
             /\ LET rows == IF loader.as_dataframe
                            THEN Get(loader.out).value.rows
                            ELSE Get(loader.out).value
                IN /\ Len(rows) = Len(SucceededPositions)
                   /\ \A k \in 1..Len(rows) :
                         /\ rows[k].symbol = loader.tickers[SucceededPositions[k]]
                         /\ rows[k] = StockRecord(
                                          loader.tickers[SucceededPositions[k]],
                                          loader.fields)

C23_Witness ==
    /\ loader.pc = "returned"
    /\ loader.max_retries = 2
    /\ loader.tickers = <<"AAPL", "MSFT">>
    /\ loader.events = <<FetchEvent(1, 0, FALSE), SleepEvent(1, 0, loader.delay),
                         FetchEvent(1, 1, FALSE),
                         FetchEvent(2, 0, FALSE), SleepEvent(2, 0, loader.delay),
                         FetchEvent(2, 1, TRUE)>>
    /\ ~loader.as_dataframe
    /\ Len(Get(loader.out).value) = 1
    /\ Get(loader.out).value[1].symbol = "MSFT"

====
